---- MODULE Spec2Model ----
(***************************************************************************)
(* rusty-journal: a task journal kept as one JSON array in one file.       *)
(* The model follows src/src/tasks.rs, src/src/main.rs and src/src/cli.rs. *)
(*                                                                         *)
(* The file is modelled at the granularity of JSON lexical tokens: each    *)
(* element of file.bytes is one token (punctuation, a string literal, an   *)
(* integer literal, null, or a run of whitespace).  serde_json's writer    *)
(* and reader are modelled over such token sequences.                      *)
(***************************************************************************)
EXTENDS Integers, Sequences, FiniteSets, TLC

VARIABLES
    file,     \* the journal file: [exists |-> BOOLEAN, bytes |-> token sequence]
    op,       \* the invocation that ran last (command line of main)
    result,   \* what that invocation returned to main
    stdout,   \* the lines that invocation printed
    world,    \* the environment of the run, fixed at Init: the instants the
              \* wall clock shows and how many tasks the user ever stores
    procs     \* SpecRace: each concurrent invocation's position and locals

vars == <<file, op, result, stdout, world, procs>>

---------------------------------------------------------------------------
(* Bounds and input domains *)

\* tasks stored at most: with one text at one instant, with several texts,
\* and while the clock ticks
MaxTasks == 4
MaxTasksTexts == 3
MaxTasksTicking == 2

\* SpecFiles: tasks in an initial journal, whitespace after each token
MaxInitTasks == 2
MaxPad == 2

Texts == {"a", "bb"}

---------------------------------------------------------------------------
(* Values *)

None == <<>>
Some(x) == <<x>>

\* chrono DateTime<Utc>: whole seconds since the epoch plus a sub-second part
DateTime(s, n) == [secs |-> s, nanos |-> n]

\* Utc::now(): the wall clock is an input, never at a whole second here
Instant(s) == DateTime(s, 5)

\* Task::new
TaskNew(text, now) == [text |-> text, create_at |-> now, completed_at |-> None]

---------------------------------------------------------------------------
(* JSON tokens *)

P(c) == <<c, "", 0>>
Str(s) == <<"str", s, 0>>
Num(n) == <<"num", "", n>>
Ws == P(" ")
Null == P("null")

\* ts_seconds::serialize: the timestamp in whole seconds
TsSerialize(dt) == Num(dt.secs)

\* ts_seconds::deserialize: an instant at a whole second
TsDeserialize(n) == DateTime(n, 0)

\* #[derive(Serialize)] for Task through serde_json's compact formatter;
\* completed_at is skipped when it is None
SerializeTask(t) ==
    <<P("{"), Str("text"), P(":"), Str(t.text), P(","),
      Str("create_at"), P(":"), TsSerialize(t.create_at)>>
    \o (IF t.completed_at = None
        THEN <<>>
        ELSE <<P(","), Str("completed_at"), P(":"), TsSerialize(t.completed_at[1])>>)
    \o <<P("}")>>

RECURSIVE SerializeElems(_)
SerializeElems(tasks) ==
    IF tasks = <<>> THEN <<>>
    ELSE IF Len(tasks) = 1 THEN SerializeTask(tasks[1])
    ELSE SerializeTask(tasks[1]) \o <<P(",")>> \o SerializeElems(Tail(tasks))

\* serde_json::to_writer(file, &tasks): the bytes written
Serialize(tasks) == <<P("[")>> \o SerializeElems(tasks) \o <<P("]")>>

---------------------------------------------------------------------------
(* serde_json::from_reader::<Vec<Task>>                                     *)
(* A parse result is [k, i, v]: k is "ok" or the category of the error      *)
(* ("eof", "syntax", "data": serde_json's Category::Eof / Syntax / Data),   *)
(* i the index after the value, v the value.                                *)

Kind(b, i) == IF i > Len(b) THEN "EOF" ELSE b[i][1]

Ok(i, v) == [k |-> "ok", i |-> i, v |-> v]
Err(c) == [k |-> c, i |-> 0, v |-> <<>>]

ValueStarts == {"str", "num", "null", "[", "{"}

\* Deserializer::parse_whitespace
RECURSIVE SkipWs(_, _)
SkipWs(b, i) == IF Kind(b, i) = " " THEN SkipWs(b, i + 1) ELSE i

\* a value of the wrong type is a Data error, a non-value a Syntax error
WrongToken(k) ==
    IF k = "EOF" THEN Err("eof")
    ELSE IF k \in ValueStarts THEN Err("data")
    ELSE Err("syntax")

\* String::deserialize (field text)
StringAt(b, i) ==
    IF Kind(b, i) = "str" THEN Ok(i + 1, b[i][2]) ELSE WrongToken(Kind(b, i))

ParseString(b, i0) == StringAt(b, SkipWs(b, i0))

\* ts_seconds::deserialize (field create_at)
TsAt(b, i) ==
    IF Kind(b, i) = "num" THEN Ok(i + 1, TsDeserialize(b[i][3]))
    ELSE WrongToken(Kind(b, i))

ParseTs(b, i0) == TsAt(b, SkipWs(b, i0))

\* deserialize_optional_datetime (field completed_at): null is None
OptTsAt(b, i) ==
    IF Kind(b, i) = "null" THEN Ok(i + 1, None)
    ELSE IF Kind(b, i) = "num" THEN Ok(i + 1, Some(TsDeserialize(b[i][3])))
    ELSE WrongToken(Kind(b, i))

ParseOptTs(b, i0) == OptTsAt(b, SkipWs(b, i0))

\* the index after the bracket that closes the one opened before i
RECURSIVE SkipNested(_, _, _)
SkipNested(b, i, depth) ==
    IF Kind(b, i) = "EOF" THEN Err("eof")
    ELSE IF Kind(b, i) \in {"[", "{"} THEN SkipNested(b, i + 1, depth + 1)
    ELSE IF Kind(b, i) \in {"]", "}"}
         THEN (IF depth = 1 THEN Ok(i + 1, None) ELSE SkipNested(b, i + 1, depth - 1))
    ELSE SkipNested(b, i + 1, depth)

\* IgnoredAny::deserialize (the value of a key Task does not have)
IgnoredAt(b, i) ==
    IF Kind(b, i) \in {"str", "num", "null"} THEN Ok(i + 1, None)
    ELSE IF Kind(b, i) \in {"[", "{"} THEN SkipNested(b, i + 1, 1)
    ELSE WrongToken(Kind(b, i))

ParseIgnored(b, i0) == IgnoredAt(b, SkipWs(b, i0))

TaskFields == {"text", "create_at", "completed_at"}

\* MapAccess::next_value_seed for the field the key names
ParseField(key, b, i) ==
    CASE key = "text" -> ParseString(b, i)
      [] key = "create_at" -> ParseTs(b, i)
      [] key = "completed_at" -> ParseOptTs(b, i)
      [] OTHER -> ParseIgnored(b, i)

NoFields == [text |-> None, create_at |-> None, completed_at |-> None]

\* the end of visit_map: text and create_at are required, completed_at
\* defaults to None
FinishTask(i, acc) ==
    IF acc.text = None \/ acc.create_at = None THEN Err("data")
    ELSE Ok(i, [text |-> acc.text[1],
                create_at |-> acc.create_at[1],
                completed_at |-> IF acc.completed_at = None THEN None
                                 ELSE acc.completed_at[1]])

\* #[derive(Deserialize)] visit_map for Task over serde_json's MapAccess;
\* acc holds Some(value) for each field seen so far
RECURSIVE ParseFields(_, _, _, _)

\* the value is parsed: its error, or on to the next key
AfterValue(b, key, r, acc) ==
    IF r.k # "ok" THEN r
    ELSE ParseFields(b, r.i, FALSE,
                     IF key \in TaskFields THEN [acc EXCEPT ![key] = Some(r.v)]
                     ELSE acc)

\* parse_object_colon at c, then the value
ColonAt(b, key, c, acc) ==
    IF Kind(b, c) = "EOF" THEN Err("eof")
    ELSE IF Kind(b, c) # ":" THEN Err("syntax")
    ELSE AfterValue(b, key, ParseField(key, b, c + 1), acc)

\* next_key_seed at j: a string; a field seen twice is a Data error
KeyAt(b, j, acc) ==
    IF Kind(b, j) = "EOF" THEN Err("eof")
    ELSE IF Kind(b, j) # "str" THEN Err("syntax")
    ELSE IF b[j][2] \in TaskFields /\ acc[b[j][2]] # None THEN Err("data")
    ELSE ColonAt(b, b[j][2], SkipWs(b, j + 1), acc)

FieldsAt(b, i, first, acc) ==
    CASE Kind(b, i) = "EOF" -> Err("eof")
      [] Kind(b, i) = "}" -> FinishTask(i + 1, acc)
      [] Kind(b, i) = "," /\ ~first -> KeyAt(b, SkipWs(b, i + 1), acc)
      [] OTHER -> IF first THEN KeyAt(b, i, acc) ELSE Err("syntax")

ParseFields(b, i0, first, acc) == FieldsAt(b, SkipWs(b, i0), first, acc)

\* Task::deserialize (deserialize_struct): a JSON object
TaskAt(b, i) ==
    IF Kind(b, i) = "{" THEN ParseFields(b, i + 1, TRUE, NoFields)
    ELSE WrongToken(Kind(b, i))

\* Vec<Task>::deserialize visit_seq over serde_json's SeqAccess, then end_seq
RECURSIVE ParseElems(_, _, _, _)

AfterElem(b, r, tasks) ==
    IF r.k # "ok" THEN r ELSE ParseElems(b, r.i, FALSE, Append(tasks, r.v))

\* next_element_seed at j: "]" here follows a comma
ElemAt(b, j, tasks) ==
    IF Kind(b, j) = "EOF" THEN Err("eof")
    ELSE IF Kind(b, j) = "]" THEN Err("syntax")
    ELSE AfterElem(b, TaskAt(b, j), tasks)

ElemsAt(b, i, first, tasks) ==
    CASE Kind(b, i) = "EOF" -> Err("eof")
      [] Kind(b, i) = "]" -> Ok(i + 1, tasks)
      [] Kind(b, i) = "," /\ ~first -> ElemAt(b, SkipWs(b, i + 1), tasks)
      [] OTHER -> IF first THEN ElemAt(b, i, tasks) ELSE Err("syntax")

ParseElems(b, i0, first, tasks) == ElemsAt(b, SkipWs(b, i0), first, tasks)

VecAt(b, i) ==
    IF Kind(b, i) = "[" THEN ParseElems(b, i + 1, TRUE, <<>>)
    ELSE WrongToken(Kind(b, i))

\* Deserializer::end: only whitespace may follow the value
EndAt(b, r) ==
    IF r.k # "ok" THEN r
    ELSE IF Kind(b, SkipWs(b, r.i)) # "EOF" THEN Err("syntax")
    ELSE r

\* from_reader
FromReader(b) == EndAt(b, VecAt(b, SkipWs(b, 1)))

\* serde_json::Error::is_eof
IsEof(r) == r.k = "eof"

\* the match in collect_task: an Eof error is taken for an empty journal
MatchParsed(r) ==
    IF r.k = "ok" THEN [ok |-> TRUE, tasks |-> r.v]
    ELSE IF IsEof(r) THEN [ok |-> TRUE, tasks |-> <<>>]
    ELSE [ok |-> FALSE, tasks |-> <<>>]

\* collect_task: the tasks, or the error it returns
CollectTask(b) == MatchParsed(FromReader(b))

---------------------------------------------------------------------------
(* Display for Task, and the lines the list commands print *)

DisplayWidth == 80

\* UnicodeWidthStr::width; the texts of the model are ASCII
TextWidth(text) == Len(text)

\* with_timezone(&Local).format("%F %H:%M:%S"): the instant to the second
FormatLocal(dt) == dt.secs

\* impl Display for Task
Display(t) ==
    [text |-> t.text,
     padding |-> IF TextWidth(t.text) < DisplayWidth
                 THEN DisplayWidth - TextWidth(t.text) ELSE 0,
     created |-> FormatLocal(t.create_at),
     completed |-> IF t.completed_at = None THEN None
                   ELSE Some(FormatLocal(t.completed_at[1]))]

\* println!("Task list is empty!")
EmptyNotice == [order |-> 0, shown |-> None]

\* println!("{}. {}", order, task)
Line(order, t) == [order |-> order, shown |-> Some(Display(t))]

IsNone(t) == t.completed_at = None
IsSome(t) == t.completed_at # None

\* tasks.iter().enumerate() restricted by a predicate on completed_at: the
\* indices, in stored order, of the tasks the filter keeps
RECURSIVE FilterIdx(_, _, _)
FilterIdx(tasks, i, wantNone) ==
    IF i > Len(tasks) THEN <<>>
    ELSE IF IsNone(tasks[i]) = wantNone
         THEN <<i>> \o FilterIdx(tasks, i + 1, wantNone)
         ELSE FilterIdx(tasks, i + 1, wantNone)

\* .filter(|t| t.completed_at.is_none())
\* variant: the view keeps every stored task, completed or not
IncompleteUnfiltered(tasks) == [i \in 1 .. Len(tasks) |-> i]

Incomplete(tasks) == FilterIdx(tasks, 1, TRUE)

\* .filter(|t| t.completed_at.is_some())
Completed(tasks) == FilterIdx(tasks, 1, FALSE)

\* the for loop of list_tasks / list_completed_tasks: order starts at 1
\* variant: a line is numbered by the task's stored index
PrintLinesStoredIndex(tasks, idx) == [k \in 1 .. Len(idx) |-> Line(idx[k], tasks[idx[k]])]

PrintLines(tasks, idx) == [k \in 1 .. Len(idx) |-> Line(k, tasks[idx[k]])]

---------------------------------------------------------------------------
(* The file and the store operations.  Each returns the file it leaves,    *)
(* the Result it hands to main, and what it printed.                       *)

NoFile == [exists |-> FALSE, bytes |-> <<>>]

\* write(2) of data at offset 0: bytes past the written ones stay
WriteAtStart(bytes, data) == data \o SubSeq(bytes, Len(data) + 1, Len(bytes))

\* File::set_len(0)
SetLen0(bytes) == <<>>

Out(f, res, lines) == [file |-> f, result |-> res, stdout |-> lines]

\* the positional check shared by complete_task and edit_task
InvalidPosition(pos, incomplete) == pos = 0 \/ pos > Len(incomplete)

\* OpenOptions .read(true).write(true).create(true).open(journal_path)
OpenCreate(f) == [exists |-> TRUE, bytes |-> f.bytes]

\* variant: the new task is put in front of the loaded ones
AddLoadedInFront(f, c, task) ==
    IF ~c.ok THEN Out(OpenCreate(f), "decode error", <<>>)
    ELSE Out([exists |-> TRUE,
              bytes |-> WriteAtStart(f.bytes, Serialize(<<task>> \o c.tasks))],
             "ok", <<>>)

\* add_task from collect_task's result c: tasks.push(task), then to_writer
\* at the start of the file, whose length is not reset
AddLoaded(f, c, task) ==
    IF ~c.ok THEN Out(OpenCreate(f), "decode error", <<>>)
    ELSE Out([exists |-> TRUE,
              bytes |-> WriteAtStart(f.bytes, Serialize(Append(c.tasks, task)))],
             "ok", <<>>)

\* add_task
AddTask(f, task) == AddLoaded(f, CollectTask(f.bytes), task)

\* variant: the position indexes the stored tasks, not the incomplete ones
CompleteAtStoredIndex(f, tasks, incomplete, pos, now) ==
    IF InvalidPosition(pos, incomplete) THEN Out(f, "invalid task position", <<>>)
    ELSE Out([f EXCEPT !.bytes =
                 WriteAtStart(SetLen0(f.bytes),
                     Serialize([tasks EXCEPT ![pos].completed_at = Some(now)]))],
             "ok", <<>>)

\* incomplete_tasks[task_position - 1].completed_at = Some(Utc::now()), then
\* file.set_len(0) and to_writer
CompleteAt(f, tasks, incomplete, pos, now) ==
    IF InvalidPosition(pos, incomplete) THEN Out(f, "invalid task position", <<>>)
    ELSE Out([f EXCEPT !.bytes =
                 WriteAtStart(SetLen0(f.bytes),
                     Serialize([tasks EXCEPT ![incomplete[pos]].completed_at = Some(now)]))],
             "ok", <<>>)

\* complete_task from collect_task's result c; open fails on a missing file
CompleteLoaded(f, c, pos, now) ==
    IF ~f.exists THEN Out(f, "io error", <<>>)
    ELSE IF ~c.ok THEN Out(f, "decode error", <<>>)
    ELSE CompleteAt(f, c.tasks, Incomplete(c.tasks), pos, now)

\* complete_task
CompleteTask(f, pos, now) == CompleteLoaded(f, CollectTask(f.bytes), pos, now)

\* variant: the file is emptied before the position is checked
EditAtTruncatingFirst(f, tasks, incomplete, pos, text) ==
    IF InvalidPosition(pos, incomplete)
    THEN Out([f EXCEPT !.bytes = SetLen0(f.bytes)], "invalid task position", <<>>)
    ELSE Out([f EXCEPT !.bytes =
                 WriteAtStart(SetLen0(f.bytes),
                     Serialize([tasks EXCEPT ![incomplete[pos]].text = text]))],
             "ok", <<>>)

\* incomplete_tasks[task_position - 1].text = text, then file.set_len(0) and
\* to_writer
EditAt(f, tasks, incomplete, pos, text) ==
    IF InvalidPosition(pos, incomplete) THEN Out(f, "invalid task position", <<>>)
    ELSE Out([f EXCEPT !.bytes =
                 WriteAtStart(SetLen0(f.bytes),
                     Serialize([tasks EXCEPT ![incomplete[pos]].text = text]))],
             "ok", <<>>)

\* variant: the position is taken over all stored tasks
EditLoadedUnfiltered(f, c, pos, text) ==
    IF ~f.exists THEN Out(f, "io error", <<>>)
    ELSE IF ~c.ok THEN Out(f, "decode error", <<>>)
    ELSE EditAt(f, c.tasks, [i \in 1 .. Len(c.tasks) |-> i], pos, text)

\* edit_task from collect_task's result c
EditLoaded(f, c, pos, text) ==
    IF ~f.exists THEN Out(f, "io error", <<>>)
    ELSE IF ~c.ok THEN Out(f, "decode error", <<>>)
    ELSE EditAt(f, c.tasks, Incomplete(c.tasks), pos, text)

\* edit_task
EditTask(f, pos, text) == EditLoaded(f, CollectTask(f.bytes), pos, text)

\* variant: the notice is printed whenever no incomplete task is left
ListLoadedNoticeOnEmptyView(f, c) ==
    IF ~f.exists THEN Out(f, "io error", <<>>)
    ELSE IF ~c.ok THEN Out(f, "decode error", <<>>)
    ELSE IF Incomplete(c.tasks) = <<>> THEN Out(f, "ok", <<EmptyNotice>>)
    ELSE Out(f, "ok", PrintLines(c.tasks, Incomplete(c.tasks)))

\* list_tasks from collect_task's result c
ListLoaded(f, c) ==
    IF ~f.exists THEN Out(f, "io error", <<>>)
    ELSE IF ~c.ok THEN Out(f, "decode error", <<>>)
    ELSE IF c.tasks = <<>> THEN Out(f, "ok", <<EmptyNotice>>)
    ELSE Out(f, "ok", PrintLines(c.tasks, Incomplete(c.tasks)))

\* list_tasks
ListTasks(f) == ListLoaded(f, CollectTask(f.bytes))

\* list_completed_tasks from collect_task's result c
ListCompletedLoaded(f, c) ==
    IF ~f.exists THEN Out(f, "io error", <<>>)
    ELSE IF ~c.ok THEN Out(f, "decode error", <<>>)
    ELSE IF c.tasks = <<>> THEN Out(f, "ok", <<EmptyNotice>>)
    ELSE Out(f, "ok", PrintLines(c.tasks, Completed(c.tasks)))

\* list_completed_tasks
ListCompletedTasks(f) == ListCompletedLoaded(f, CollectTask(f.bytes))

---------------------------------------------------------------------------
(* main: one invocation runs one command to completion *)

Cmd(name, pos, text) == [name |-> name, position |-> pos, text |-> text]
NoCmd == Cmd("none", 0, "")

\* what collect_task returns on the file as it is now
Loaded == CollectTask(file.bytes)

\* the journal the file decodes to (what the next invocation will load)
Journal == Loaded.tasks

\* the positions tried: 0, every valid one, and the first past the end
Positions(c) == 0 .. (Len(Incomplete(c.tasks)) + 1)

\* one invocation: main runs the command to completion and exits
Run(cmd, o) ==
    \E out \in {o} :
        /\ world.single => op = NoCmd
        /\ op' = cmd
        /\ file' = out.file
        /\ result' = out.result
        /\ stdout' = out.stdout
        /\ UNCHANGED <<world, procs>>

World(instants, texts, capacity, single) ==
    [instants |-> instants, texts |-> texts, capacity |-> capacity, single |-> single]

\* many tasks of one text at one instant, fewer tasks with several texts,
\* or fewer tasks while the clock ticks
Worlds ==
    { World({Instant(0)}, {"a"}, MaxTasks, FALSE),
      World({Instant(0)}, Texts, MaxTasksTexts, FALSE),
      World({Instant(0), Instant(1)}, {"a"}, MaxTasksTicking, FALSE) }

NoProcs == <<>>

\* no journal file yet, nothing run
Init ==
    /\ file = NoFile
    /\ op = NoCmd
    /\ result = "ok"
    /\ stdout = <<>>
    /\ world \in Worlds
    /\ procs = NoProcs

\* Add { text } => add_task(journal_file, Task::new(text))
DoAdd ==
    \E c \in {Loaded} :
        /\ Len(c.tasks) < world.capacity
        /\ \E text \in world.texts, now \in world.instants :
              Run(Cmd("add", 0, text), AddLoaded(file, c, TaskNew(text, now)))

\* Done { position } => complete_task(journal_file, position)
DoDone ==
    \E c \in {Loaded} :
        \E pos \in Positions(c), now \in world.instants :
            Run(Cmd("done", pos, ""), CompleteLoaded(file, c, pos, now))

\* List => list_tasks(journal_file)
DoList ==
    \E c \in {Loaded} : Run(Cmd("list", 0, ""), ListLoaded(file, c))

\* Edit { position, text } => edit_task(journal_file, position, text)
DoEdit ==
    \E c \in {Loaded} :
        \E pos \in Positions(c), text \in world.texts :
            Run(Cmd("edit", pos, text), EditLoaded(file, c, pos, text))

\* ListCompleted => list_completed_tasks(journal_file)
DoListCompleted ==
    \E c \in {Loaded} :
        Run(Cmd("list-completed", 0, ""), ListCompletedLoaded(file, c))

\* the match in main
Next ==
    \/ DoAdd
    \/ DoDone
    \/ DoList
    \/ DoEdit
    \/ DoListCompleted

Spec == Init /\ [][Next]_vars

---------------------------------------------------------------------------
(* SpecFiles: one invocation on a file somebody else may have written:     *)
(* a journal in compact or spaced-out JSON, a journal cut short by an      *)
(* interrupted write, or something that is no journal.                     *)

InitTasks ==
    { [text |-> "a", create_at |-> DateTime(0, 0), completed_at |-> None],
      [text |-> "bb", create_at |-> DateTime(0, 0),
       completed_at |-> Some(DateTime(1, 0))] }

InitJournals ==
    UNION { [1 .. n -> InitTasks] : n \in 0 .. MaxInitTasks }

\* k whitespace bytes after every token
RECURSIVE Spread(_, _)
Spread(b, k) ==
    IF b = <<>> THEN <<>>
    ELSE <<Head(b)>> \o [i \in 1 .. k |-> Ws] \o Spread(Tail(b), k)

Compact == { Serialize(j) : j \in InitJournals }

Spaced == { Spread(b, k) : b \in Compact, k \in 1 .. MaxPad }

\* every proper prefix of a journal: what an interrupted write leaves
CutShort == UNION { { SubSeq(b, 1, n) : n \in 0 .. (Len(b) - 1) } : b \in Compact }

\* journals as another writer may put them: completed_at given as null, a
\* key Task does not have
OtherForms ==
    { <<P("["), P("{"), Str("text"), P(":"), Str("a"), P(","),
        Str("create_at"), P(":"), Num(0), P(","),
        Str("completed_at"), P(":"), Null, P("}"), P("]")>>,
      <<P("["), P("{"), Str("note"), P(":"), P("["), Num(0), P("]"), P(","),
        Str("text"), P(":"), Str("a"), P(","),
        Str("create_at"), P(":"), Num(0), P("}"), P("]")>> }

\* no journal: a bare value, a stray bracket, a trailing comma, a task
\* without create_at, a field given twice, a text that is a number, text
\* after the array, whitespace alone
NoJournal ==
    { <<Null>>,
      <<P("{"), P("}")>>,
      <<P("]")>>,
      <<P("["), P(","), P("]")>>,
      <<P("["), P("{"), Str("text"), P(":"), Str("a"), P("}"), P("]")>>,
      <<P("["), P("{"), Str("text"), P(":"), Str("a"), P(","),
        Str("text"), P(":"), Str("a"), P(","),
        Str("create_at"), P(":"), Num(0), P("}"), P("]")>>,
      <<P("["), P("{"), Str("text"), P(":"), Num(0), P(","),
        Str("create_at"), P(":"), Num(0), P("}"), P("]")>>,
      <<P("["), P("]"), P("]")>>,
      <<Ws, Ws>> }

InitContents == Compact \cup Spaced \cup CutShort \cup OtherForms \cup NoJournal

InitFiles ==
    /\ file \in {NoFile} \cup { [exists |-> TRUE, bytes |-> b] : b \in InitContents }
    /\ op = NoCmd
    /\ result = "ok"
    /\ stdout = <<>>
    /\ world = World({Instant(0), Instant(1)}, Texts, MaxInitTasks + 1, TRUE)
    /\ procs = NoProcs

SpecFiles == InitFiles /\ [][Next]_vars

---------------------------------------------------------------------------
(* SpecRace: two invocations at once on the same file.  Nothing locks the  *)
(* file, so each system call of one may fall between those of the other.   *)
(* Each process opens the file itself and so has a file offset of its own. *)

Procs == {1, 2}

RaceCmds == { Cmd("add", 0, t) : t \in Texts } \cup { Cmd("done", 1, "") }

Proc(cmd, pc, loaded, res) ==
    [cmd |-> cmd, pc |-> pc, loaded |-> loaded, result |-> res]

NotLoaded == [ok |-> FALSE, tasks |-> <<>>]

RaceJournals == { j \in InitJournals : Len(j) <= 1 }

InitRace ==
    /\ file \in {NoFile} \cup { [exists |-> TRUE, bytes |-> Serialize(j)] : j \in RaceJournals }
    /\ op = NoCmd
    /\ result = "ok"
    /\ stdout = <<>>
    /\ world = World({Instant(0)}, Texts, MaxTasks, FALSE)
    /\ procs \in [Procs -> { Proc(c, "start", NotLoaded, "") : c \in RaceCmds }]

Finish(p, res) == procs' = [procs EXCEPT ![p].pc = "done", ![p].result = res]

\* OpenOptions::open: add_task creates a missing file, complete_task fails
RaceOpen(p) ==
    /\ procs[p].pc = "start"
    /\ IF procs[p].cmd.name = "add"
       THEN /\ file' = OpenCreate(file)
            /\ procs' = [procs EXCEPT ![p].pc = "opened"]
       ELSE /\ file' = file
            /\ IF file.exists
               THEN procs' = [procs EXCEPT ![p].pc = "opened"]
               ELSE Finish(p, "io error")
    /\ UNCHANGED <<op, result, stdout, world>>

\* collect_task; complete_task goes on to its positional check
RaceLoad(p) ==
    /\ procs[p].pc = "opened"
    /\ \E c \in {CollectTask(file.bytes)} :
          IF ~c.ok THEN Finish(p, "decode error")
          ELSE IF procs[p].cmd.name = "done"
                  /\ InvalidPosition(procs[p].cmd.position, Incomplete(c.tasks))
               THEN Finish(p, "invalid task position")
          ELSE procs' = [procs EXCEPT ![p].pc = "loaded", ![p].loaded = c]
    /\ UNCHANGED <<file, op, result, stdout, world>>

\* file.set_len(0) of complete_task
RaceSetLen(p) ==
    /\ procs[p].pc = "loaded"
    /\ procs[p].cmd.name = "done"
    /\ file' = [file EXCEPT !.bytes = SetLen0(file.bytes)]
    /\ procs' = [procs EXCEPT ![p].pc = "truncated"]
    /\ UNCHANGED <<op, result, stdout, world>>

\* variant: the invocation changes what the file holds when it writes
RaceTasksFromFile(p, now) ==
    IF procs[p].cmd.name = "add"
    THEN Append(Journal, TaskNew(procs[p].cmd.text, now))
    ELSE [procs[p].loaded.tasks EXCEPT
            ![Incomplete(procs[p].loaded.tasks)[procs[p].cmd.position]].completed_at
                = Some(now)]

\* the tasks the invocation writes back: what it loaded, changed
RaceTasks(p, now) ==
    IF procs[p].cmd.name = "add"
    THEN Append(procs[p].loaded.tasks, TaskNew(procs[p].cmd.text, now))
    ELSE [procs[p].loaded.tasks EXCEPT
            ![Incomplete(procs[p].loaded.tasks)[procs[p].cmd.position]].completed_at
                = Some(now)]

\* serde_json::to_writer at the process's own offset 0
RaceWrite(p) ==
    /\ \/ procs[p].pc = "loaded" /\ procs[p].cmd.name = "add"
       \/ procs[p].pc = "truncated"
    /\ \E now \in world.instants :
          file' = [file EXCEPT !.bytes = WriteAtStart(file.bytes, Serialize(RaceTasks(p, now)))]
    /\ Finish(p, "ok")
    /\ UNCHANGED <<op, result, stdout, world>>

NextRace ==
    \E p \in Procs :
        \/ RaceOpen(p)
        \/ RaceLoad(p)
        \/ RaceSetLen(p)
        \/ RaceWrite(p)

SpecRace == InitRace /\ [][NextRace]_vars

---------------------------------------------------------------------------
(* The claims.  They read a journal in their own terms: the set of stored  *)
(* indices whose task is incomplete (completed), and the p-th index of     *)
(* such a set counted in stored order.                                     *)

Pending(j) == { i \in 1 .. Len(j) : j[i].completed_at = None }
Closed(j) == { i \in 1 .. Len(j) : j[i].completed_at # None }
Nth(S, p) == CHOOSE i \in S : Cardinality({ k \in S : k <= i }) = p

\* the lines a view S of journal j is expected to print
Shown(j, S) ==
    [k \in 1 .. Cardinality(S) |-> [order |-> k, shown |-> Some(Display(j[Nth(S, k)]))]]

C2_InvalidPositionLeavesFile ==
    [][ \A j \in {Journal} :
          op'.name \in {"done", "edit"} /\ file.exists /\ Loaded.ok
          /\ (op'.position = 0 \/ op'.position > Cardinality(Pending(j)))
          => /\ result' = "invalid task position"
             /\ file' = file ]_vars

C2_Witness ==
    /\ op.name = "edit"
    /\ op.position = Cardinality(Pending(Journal)) + 1
    /\ result = "invalid task position"
    /\ Closed(Journal) # {}
    /\ Pending(Journal) # {}

\* C3: edit_task(p, text) with a valid p succeeds, replaces the text of
\* exactly the p-th task of the incomplete-only view, and changes no other
\* text, no create_at, no completed_at, nor the number or order of tasks.
C3_EditReplacesOnlyPthText ==
    [][ \A j \in {Journal}, j2 \in {CollectTask(file'.bytes).tasks} :
          op'.name = "edit" /\ file.exists
          /\ op'.position \in 1 .. Cardinality(Pending(j))
          => /\ result' = "ok"
             /\ Len(j2) = Len(j)
             /\ \A i \in 1 .. Len(j) :
                   /\ j2[i].create_at = j[i].create_at
                   /\ j2[i].completed_at = j[i].completed_at
                   /\ j2[i].text = IF i = Nth(Pending(j), op'.position)
                                   THEN op'.text ELSE j[i].text ]_vars

\* edit 1 has reached the second stored task, past a completed first one
C3_Witness ==
    /\ op = Cmd("edit", 1, "bb")
    /\ result = "ok"
    /\ Len(Journal) >= 2
    /\ Journal[1].completed_at # None /\ Journal[1].text = "a"
    /\ Journal[2].completed_at = None /\ Journal[2].text = "bb"

\* C4: on a journal that is not empty, list_tasks prints exactly the tasks
\* without completed_at and list_completed_tasks exactly those with it, in
\* stored order, numbered 1, 2, ...; and the rank list prints for a task is
\* the position by which complete_task and edit_task reach that same task.
C4_ListsShowTheFilteredViews ==
    \A j \in {Journal} :
        /\ op.name = "list" /\ result = "ok" /\ j # <<>>
           => stdout = Shown(j, Pending(j))
        /\ op.name = "list-completed" /\ result = "ok" /\ j # <<>>
           => stdout = Shown(j, Closed(j))
        /\ op.name = "list" /\ result = "ok" /\ j # <<>>
           => \A k \in 1 .. Len(stdout) : \A now \in world.instants :
                \A d \in {CollectTask(CompleteTask(file, k, now).file.bytes).tasks},
                   e \in {CollectTask(EditTask(file, k, "bb").file.bytes).tasks} :
                   \E i \in 1 .. Len(j) :
                      /\ stdout[k].shown = Some(Display(j[i]))
                      /\ d[i].completed_at # None /\ j[i].completed_at = None
                      /\ \A n \in 1 .. Len(j) : n # i => d[n] = j[n] /\ e[n] = j[n]

\* T1, T2, T3 with T2 completed: list shows T1 as 1 and T3 as 2
C4_Witness ==
    /\ op.name = "list"
    /\ result = "ok"
    /\ Len(Journal) = 3
    /\ Pending(Journal) = {1, 3}
    /\ Len(stdout) = 2
    /\ stdout[1].order = 1 /\ stdout[2].order = 2

OneCompletedTask(j) == Len(j) = 1 /\ j[1].completed_at # None

\* C5 as stated: when the journal holds one task and it is completed, list
\* prints the notice "Task list is empty!".
C5_ListPrintsNoticeWhenAllCompleted ==
    op.name = "list" /\ result = "ok" /\ OneCompletedTask(Journal)
    => stdout = <<EmptyNotice>>

\* C5 amended: when the journal holds one task and it is completed, list
\* prints nothing at all (the notice is printed only for a journal without
\* tasks), and list-completed prints that task as rank 1 with its completion
\* time.
C5_ListPrintsNothingWhenAllCompleted ==
    \A j \in {Journal} :
        /\ op.name = "list" /\ result = "ok" /\ OneCompletedTask(j)
           => stdout = <<>>
        /\ op.name = "list-completed" /\ result = "ok" /\ OneCompletedTask(j)
           => /\ Len(stdout) = 1
              /\ stdout[1].order = 1
              /\ stdout[1].shown # None
              /\ stdout[1].shown[1].text = j[1].text
              /\ stdout[1].shown[1].completed = Some(FormatLocal(j[1].completed_at[1]))
        /\ op.name \in {"list", "list-completed"} /\ result = "ok"
           => (stdout = <<EmptyNotice>> <=> j = <<>>)

C5_Witness ==
    /\ op.name = "list"
    /\ result = "ok"
    /\ OneCompletedTask(Journal)
    /\ stdout = <<>>

\* whitespace alone (or nothing): end of input at the first token
Blank(b) == \A i \in 1 .. Len(b) : b[i] = Ws

\* C6: for every content that is a complete journal (or nothing at all),
\* however it is spaced, after a successful add_task the file holds exactly
\* the serialization of the loaded tasks with the new task appended (so no byte of the previous content is left after it), and
\* loading it again returns those tasks.
C6_AddLeavesExactlyTheNewJournal ==
    [][ \A j \in {Journal} :
          op'.name = "add" /\ result' = "ok"
          /\ (~file.exists \/ Blank(file.bytes) \/ FromReader(file.bytes).k = "ok")
          => \E now \in world.instants :
                /\ file'.bytes = Serialize(Append(j, TaskNew(op'.text, now)))
                /\ \A j2 \in {CollectTask(file'.bytes).tasks} :
                      /\ Len(j2) = Len(j) + 1
                      /\ SubSeq(j2, 1, Len(j)) = j
                      /\ j2[Len(j) + 1].text = op'.text ]_vars

\* C7: collect_task returns the empty sequence only for a file that is
\* empty (or blank) or holds an empty array; on any other content that is no
\* complete array of tasks the command fails with a decode error, prints
\* nothing and leaves the file as it was.
C7_OnlyAnEmptyFileLoadsAsEmpty ==
    [][ file.exists
        => /\ Loaded.ok /\ Loaded.tasks = <<>>
              => Blank(file.bytes) \/ FromReader(file.bytes).k = "ok"
           /\ FromReader(file.bytes).k # "ok" /\ ~Blank(file.bytes)
              => /\ result' = "decode error"
                 /\ stdout' = <<>>
                 /\ file' = file ]_vars

\* C8: a task is created incomplete, only complete_task makes a task
\* completed, and a completed task keeps its completed_at through every
\* later add, done, edit, list and list-completed.
C8_CompletionIsOneWay ==
    [][ \A j \in {Journal}, j2 \in {CollectTask(file'.bytes).tasks} :
          /\ Len(j2) >= Len(j)
          /\ \A i \in 1 .. Len(j) :
                /\ j[i].completed_at # None => j2[i].completed_at = j[i].completed_at
                /\ j[i].completed_at = None /\ j2[i].completed_at # None
                   => op'.name = "done"
          /\ \A i \in (Len(j) + 1) .. Len(j2) :
                op'.name = "add" /\ j2[i].completed_at = None ]_vars

\* a done has run while a task completed at another instant kept its time
C8_Witness ==
    /\ op.name = "done"
    /\ result = "ok"
    /\ \E i, k \in Closed(Journal) :
          /\ Journal[i].completed_at = Some(DateTime(0, 0))
          /\ Journal[k].completed_at = Some(DateTime(1, 0))

BothAdded ==
    \A p \in Procs :
        procs[p].cmd.name = "add" /\ procs[p].pc = "done" /\ procs[p].result = "ok"

\* both invocations loaded the same journal: neither saw the other's write
LoadedAlike == procs[1].loaded = procs[2].loaded

\* C9: when two add invocations interleave so that both load before either
\* writes, both report success and the journal ends with only one of the
\* two added tasks: one task more than was loaded, not two.
C9_InterleavedAddsLoseOne ==
    BothAdded /\ LoadedAlike
    => \A j \in {Journal} :
          /\ Len(j) = Len(procs[1].loaded.tasks) + 1
          /\ SubSeq(j, 1, Len(j) - 1) = procs[1].loaded.tasks
          /\ \E p \in Procs : j[Len(j)].text = procs[p].cmd.text

C9_Witness ==
    /\ BothAdded
    /\ LoadedAlike
    /\ Len(procs[1].loaded.tasks) = 1
    /\ procs[1].cmd.text # procs[2].cmd.text
    /\ Len(Journal) = 2

====
